---- MODULE Spec2Model ----
(***************************************************************************)
(* A model of nhl-235 (src/src/main.rs, src/src/api_types.rs): the feed    *)
(* transformation (parse_game and its helpers), the stats aggregation      *)
(* (count_stats, craft_stats_message), the highlight file parser and the   *)
(* renderer.                                                               *)
(*                                                                         *)
(* Conventions.                                                            *)
(*  - A Rust String is a sequence of one-character strings, so that        *)
(*    splitting, parsing and padding are computed and not assumed.         *)
(*  - Option<T> is a sequence of length 0 (None) or 1 (Some).              *)
(*  - A u64 is written as the representative of its class modulo 2^64 that *)
(*    is nearest to zero: -k stands for 2^64 - k. Wrapping arithmetic is   *)
(*    then integer arithmetic.                                             *)
(*  - A computation that may panic returns Ok(v) or Panic(why).            *)
(***************************************************************************)
EXTENDS Integers, Sequences, FiniteSets, TLC

VARIABLES
    overflow_checks,  \* build profile: TRUE = arithmetic overflow panics (debug)
    pc,               \* position of the operation under analysis
    goal_json,        \* a GoalResponse of the feed
    goal,             \* the outcome of converting goal_json
    special_flag,     \* what is_special returned for goal_json
    player_in,        \* the (name, team) arguments of extract_player
    player,           \* the Player extract_player returned
    config,           \* contents of the highlight file
    highlights,       \* the highlight list (in SpecConfig: the Result holding it)
    game_json,        \* a GameResponse of the feed
    game,             \* the outcome of parse_game on game_json, or the Game printed
    goals,            \* the goals handed to count_stats and craft_stats_message
    stats,            \* the stats map count_stats filled
    message,          \* what craft_stats_message returned
    options,          \* Options: use_colors, show_highlights, show_stats
    is_tty,           \* atty::is(Stream::Stdout)
    stdout,           \* what was written to standard output, one entry per print
    args,             \* Cli: version, nocolors, highlight, stats
    env,              \* what the run finds: the highlight file, the network, the feed
    response,         \* what fetch_games returned
    parsed_games,     \* what parse_games returned
    exit_code         \* Option: the exit code once the process has ended

goalVars == <<goal_json, goal, special_flag>>
playerVars == <<player_in, player>>
configVars == <<config, highlights>>
gameVars == <<game_json, game>>
statsVars == <<goals, stats, message>>
printVars == <<options, is_tty, stdout>>
mainVars == <<args, env, response, parsed_games, exit_code>>

vars == <<overflow_checks, pc, goalVars, playerVars, configVars, gameVars, statsVars,
          printVars, mainVars>>

----------------------------------------------------------------------------
(* Bounds of the model *)

MaxPeriodLen == 2     \* longest period string drawn for a feed goal
MaxNameLen == 5       \* longest full name drawn for extract_player
MaxConfigLen == 4     \* longest highlight file drawn
MaxGoals == 2         \* most goals drawn for a feed game
MaxGames == 2         \* most games drawn for a feed
MaxPeriodNumber == 44 \* largest period number the minute formula is checked for

----------------------------------------------------------------------------
(* Generic helpers *)

None == <<>>
Some(x) == <<x>>
IsSome(o) == Len(o) = 1
Unwrap(o) == o[1]

Ok(v) == [kind |-> "ok", val |-> v]
Panic(why) == [kind |-> "panic", why |-> why]
IsOk(r) == r.kind = "ok"
IsPanic(r) == r.kind = "panic"
NoValue == [kind |-> "none"]

\* all strings over alphabet A of length 0..n
StringsUpTo(A, n) == UNION {[1..k -> A] : k \in 0..n}

----------------------------------------------------------------------------
(* Program constants *)

SHOOTOUT_MINUTE == 65
PERIOD_MINUTES == 20
OT_START == 60
SPECIAL_FROM_PERIOD == 4

----------------------------------------------------------------------------
(* str::parse::<u64> *)

DigitChars == <<"0", "1", "2", "3", "4", "5", "6", "7", "8", "9">>
Digits == {DigitChars[i] : i \in 1..10}
DigitVal(c) == (CHOOSE i \in 1..10 : DigitChars[i] = c) - 1

RECURSIVE DigitsValue(_)
DigitsValue(s) ==
    IF s = <<>> THEN 0
    ELSE 10 * DigitsValue(SubSeq(s, 1, Len(s) - 1)) + DigitVal(s[Len(s)])

\* u64::from_str: an optional leading "+", then one or more decimal digits.
\* (The strings of the model are far shorter than the 20 digits at which
\* the value would exceed u64::MAX.)
parse_u64(s) ==
    LET body == IF s # <<>> /\ s[1] = "+" THEN Tail(s) ELSE s
    IN  IF body # <<>> /\ \A i \in 1..Len(body) : body[i] \in Digits
        THEN Some(DigitsValue(body))
        ELSE None

\* Display of a non-negative integer
RECURSIVE ToDecimal(_)
ToDecimal(n) ==
    IF n < 10 THEN <<DigitChars[n + 1]>>
    ELSE ToDecimal(n \div 10) \o <<DigitChars[(n % 10) + 1]>>

----------------------------------------------------------------------------
(* format_minute, is_special *)

format_minute_off_by_one(min, period) ==
    IF period = <<"O", "T">> THEN Ok(OT_START + min)
    ELSE LET parsed == parse_u64(period)
         IN  IF ~IsSome(parsed) THEN Panic("unwrap on Err")
             ELSE Ok(PERIOD_MINUTES * Unwrap(parsed) + min)

format_minute(min, period) ==
    IF period = <<"O", "T">> THEN Ok(OT_START + min)
    ELSE LET parsed == parse_u64(period)
         IN  IF ~IsSome(parsed) THEN Panic("unwrap on Err")
             ELSE LET p == Unwrap(parsed)
                  IN  IF p < 1 /\ overflow_checks
                      THEN Panic("attempt to subtract with overflow")
                      ELSE Ok(PERIOD_MINUTES * (p - 1) + min)

is_special_strictly_above(g) ==
    LET parsed == parse_u64(g.period)
    IN  IF IsSome(parsed) THEN Unwrap(parsed) > SPECIAL_FROM_PERIOD ELSE TRUE

is_special(g) ==
    LET parsed == parse_u64(g.period)
    IN  IF IsSome(parsed) THEN Unwrap(parsed) >= SPECIAL_FROM_PERIOD ELSE TRUE

----------------------------------------------------------------------------
(* str::split, join, replace *)

\* position of the first occurrence of character c in s, 0 when absent
IndexOf(s, c) ==
    IF \E i \in 1..Len(s) : s[i] = c
    THEN CHOOSE i \in 1..Len(s) : s[i] = c /\ \A j \in 1..(i - 1) : s[j] # c
    ELSE 0

RECURSIVE Split(_, _)
Split(s, c) ==
    LET i == IndexOf(s, c)
    IN  IF i = 0 THEN <<s>>
        ELSE <<SubSeq(s, 1, i - 1)>> \o Split(SubSeq(s, i + 1, Len(s)), c)

RECURSIVE Join(_, _)
Join(parts, sep) ==
    IF parts = <<>> THEN <<>>
    ELSE IF Len(parts) = 1 THEN parts[1]
    ELSE parts[1] \o sep \o Join(Tail(parts), sep)

RECURSIVE RemoveChar(_, _)
RemoveChar(s, c) ==
    IF s = <<>> THEN <<>>
    ELSE (IF s[1] = c THEN <<>> ELSE <<s[1]>>) \o RemoveChar(Tail(s), c)

----------------------------------------------------------------------------
(* extract_player *)

extract_player_last_token(full_name, team) ==
    LET parts == Split(full_name, " ")
    IN  [first_name |-> parts[1],
         last_name  |-> IF Len(parts) > 1 THEN parts[Len(parts)] ELSE <<>>,
         team       |-> team]

extract_player(full_name, team) ==
    LET parts == Split(full_name, " ")
    IN  [first_name |-> parts[1],
         last_name  |-> Join(SubSeq(parts, 2, Len(parts)), <<" ">>),
         team       |-> team]

----------------------------------------------------------------------------
(* The per-goal closure of parse_game *)

parse_game_goal_min_defaults(g) ==
    LET minute ==
            IF g.period = <<"S", "O">> THEN Ok(SHOOTOUT_MINUTE)
            ELSE IF ~IsSome(g.min) THEN Ok(0)
            ELSE format_minute(Unwrap(g.min), g.period)
        assists == IF IsSome(g.assists) THEN Unwrap(g.assists) ELSE <<>>
    IN  IF IsPanic(minute) THEN minute
        ELSE Ok([scorer  |-> extract_player(g.scorer, g.team),
                 assists |-> [i \in 1..Len(assists) |->
                                 extract_player(assists[i], g.team)],
                 minute  |-> minute.val,
                 team    |-> RemoveChar(g.team, "\""),
                 special |-> is_special(g)])

parse_game_goal(g) ==
    LET minute ==
            IF g.period = <<"S", "O">> THEN Ok(SHOOTOUT_MINUTE)
            ELSE IF ~IsSome(g.min) THEN Panic("unwrap on None")
            ELSE format_minute(Unwrap(g.min), g.period)
        assists == IF IsSome(g.assists) THEN Unwrap(g.assists) ELSE <<>>
    IN  IF IsPanic(minute) THEN minute
        ELSE Ok([scorer  |-> extract_player(g.scorer, g.team),
                 assists |-> [i \in 1..Len(assists) |->
                                 extract_player(assists[i], g.team)],
                 minute  |-> minute.val,
                 team    |-> RemoveChar(g.team, "\""),
                 special |-> is_special(g)])

----------------------------------------------------------------------------
(* parse_game *)

\* serde_json::Value: a number or a string (the two shapes a score takes)
Num(n) == [json |-> "number", n |-> n, s |-> <<>>, o |-> <<>>]
Str(s) == [json |-> "string", n |-> 0, s |-> s, o |-> <<>>]
Obj(o) == [json |-> "object", n |-> 0, s |-> <<>>, o |-> o]
Null == [json |-> "null", n |-> 0, s |-> <<>>, o |-> <<>>]

\* Display of a serde_json::Value is its JSON text: a string keeps its quotes
DisplayValue(v) ==
    IF v.json = "number" THEN ToDecimal(v.n)
    ELSE IF v.json = "string" THEN <<"\"">> \o v.s \o <<"\"">>
    ELSE <<"n", "u", "l", "l">>    \* (no object is displayed in the model)

\* the goals of g converted in feed order, or the first panic met
parse_game_goals_first_only(gs) ==
    IF gs = <<>> THEN Ok(<<>>)
    ELSE LET first == parse_game_goal(gs[1])
         IN  IF IsPanic(first) THEN first ELSE Ok(<<first.val>>)

RECURSIVE parse_game_goals(_)
parse_game_goals(gs) ==
    IF gs = <<>> THEN Ok(<<>>)
    ELSE LET first == parse_game_goal(gs[1])
         IN  IF IsPanic(first) THEN first
             ELSE LET rest == parse_game_goals(Tail(gs))
                  IN  IF IsPanic(rest) THEN rest ELSE Ok(<<first.val>> \o rest.val)

game_special_from_any_goal(all_goals) ==
    IF \E i \in 1..Len(all_goals) : all_goals[i].period = <<"S", "O">> THEN <<"s", "o">>
    ELSE IF \E i \in 1..Len(all_goals) : all_goals[i].period \notin {<<"1">>, <<"2">>, <<"3">>}
    THEN <<"o", "t">>
    ELSE <<>>

game_special(all_goals) ==
    IF all_goals = <<>> THEN <<>>
    ELSE LET period == all_goals[Len(all_goals)].period
         IN  IF period \in {<<"1">>, <<"2">>, <<"3">>} THEN <<>>
             ELSE IF period = <<"O", "T">> THEN <<"o", "t">>
             ELSE IF period = <<"S", "O">> THEN <<"s", "o">>
             ELSE <<"o", "t">>

parse_game(g) ==
    LET home_team == g.teams.home.abbreviation
        away_team == g.teams.away.abbreviation
        all_goals == IF IsSome(g.goals) THEN Unwrap(g.goals) ELSE <<>>
        converted == parse_game_goals(all_goals)
    IN  IF home_team \notin DOMAIN g.scores \/ away_team \notin DOMAIN g.scores
        THEN Panic("key not found in HashMap")
        ELSE IF IsPanic(converted) THEN converted
        ELSE Ok(Some([home    |-> home_team,
                      away    |-> away_team,
                      score   |-> DisplayValue(g.scores[home_team]) \o <<"-">>
                                      \o DisplayValue(g.scores[away_team]),
                      goals   |-> converted.val,
                      status  |-> g.status.state,
                      special |-> game_special(all_goals),
                      playoff_series |-> g.current_stats.playoff_series]))

----------------------------------------------------------------------------
(* count_stats, has_last_name_namesake, craft_stats_message *)

Contains(list, x) == \E i \in 1..Len(list) : list[i] = x

\* HashMap<&Player, Stat> is a function from the Players it holds to Stats
EmptyStats == [p \in {} |-> [goals |-> 0, assists |-> 0]]

\* entry(p).and_modify(goals += 1).or_insert(Stat {goals: 1, assists: 0})
AddGoal(st, p) ==
    IF p \in DOMAIN st THEN [st EXCEPT ![p].goals = @ + 1]
    ELSE st @@ (p :> [goals |-> 1, assists |-> 0])

\* entry(p).and_modify(assists += 1).or_insert(Stat {goals: 0, assists: 1})
AddAssist(st, p) ==
    IF p \in DOMAIN st THEN [st EXCEPT ![p].assists = @ + 1]
    ELSE st @@ (p :> [goals |-> 0, assists |-> 1])

count_assists_first_only(assists, hl, st) ==
    IF assists # <<>> /\ Contains(hl, assists[1].last_name)
    THEN AddAssist(st, assists[1]) ELSE st

RECURSIVE count_assists(_, _, _)
count_assists(assists, hl, st) ==
    IF assists = <<>> THEN st
    ELSE count_assists(Tail(assists), hl,
                       IF Contains(hl, assists[1].last_name)
                       THEN AddAssist(st, assists[1]) ELSE st)

count_goal_with_shootout(g, hl, st) ==
    count_assists(g.assists, hl,
                  IF Contains(hl, g.scorer.last_name) THEN AddGoal(st, g.scorer) ELSE st)

\* the body of the for_each closure of count_stats
count_goal(g, hl, st) ==
    IF g.minute = 65 THEN st
    ELSE count_assists(g.assists, hl,
                       IF Contains(hl, g.scorer.last_name) THEN AddGoal(st, g.scorer) ELSE st)

RECURSIVE count_stats(_, _, _)
count_stats(gs, hl, st) ==
    IF gs = <<>> THEN st
    ELSE count_stats(Tail(gs), hl, count_goal(gs[1], hl, st))

has_last_name_namesake_other_team(p, st) ==
    \E other \in DOMAIN st : other.last_name = p.last_name /\ other.team # p.team

has_last_name_namesake(p, st) ==
    \E other \in DOMAIN st :
        \/ other.last_name = p.last_name /\ other.team # p.team
        \/ /\ other.last_name = p.last_name /\ other.team = p.team
           /\ other.first_name # p.first_name

\* the orders in which a HashMap holding the keys S may enumerate them
Orders(S) ==
    {o \in [1..Cardinality(S) -> S] : \A i, j \in 1..Cardinality(S) : o[i] = o[j] => i = j}

\* one pass of the loop of craft_stats_message
sub_message(p, st) ==
    IF has_last_name_namesake(p, st)
    THEN IF p.first_name = <<>> THEN Panic("unwrap on None")
         ELSE Ok(<<p.first_name[1], ".", " ">> \o p.last_name \o <<" ">>
                 \o ToDecimal(st[p].goals) \o <<"+">> \o ToDecimal(st[p].assists))
    ELSE Ok(p.last_name \o <<" ">>
            \o ToDecimal(st[p].goals) \o <<"+">> \o ToDecimal(st[p].assists))

\* craft_stats_message when the map enumerates its keys in `order`
craft_stats_message(gs, hl, order) ==
    LET st == count_stats(gs, hl, EmptyStats)
        subs == [i \in 1..Len(order) |-> sub_message(order[i], st)]
    IN  IF DOMAIN st = {} THEN Ok(None)
        ELSE IF \E i \in 1..Len(subs) : IsPanic(subs[i]) THEN Panic("unwrap on None")
        ELSE Ok(Some(<<"(">> \o Join([i \in 1..Len(subs) |-> subs[i].val], <<",", " ">>)
                     \o <<")">>))

----------------------------------------------------------------------------
(* print_game and its helpers *)

translate_team_name(abbr) ==
    IF abbr = <<"B", "O", "S">> THEN <<"B", "o", "s", "t", "o", "n">> ELSE
    IF abbr = <<"B", "U", "F">> THEN <<"B", "u", "f", "f", "a", "l", "o">> ELSE
    IF abbr = <<"N", "J", "D">> THEN <<"N", "e", "w", " ", "J", "e", "r", "s", "e", "y">> ELSE
    IF abbr = <<"N", "Y", "I">> THEN <<"N", "Y", " ", "I", "s", "l", "a", "n", "d", "e", "r", "s">> ELSE
    IF abbr = <<"N", "Y", "R">> THEN <<"N", "Y", " ", "R", "a", "n", "g", "e", "r", "s">> ELSE
    IF abbr = <<"P", "H", "I">> THEN <<"P", "h", "i", "l", "a", "d", "e", "l", "p", "h", "i", "a">> ELSE
    IF abbr = <<"P", "I", "T">> THEN <<"P", "i", "t", "t", "s", "b", "u", "r", "g", "h">> ELSE
    IF abbr = <<"W", "S", "H">> THEN <<"W", "a", "s", "h", "i", "n", "g", "t", "o", "n">> ELSE
    IF abbr = <<"C", "A", "R">> THEN <<"C", "a", "r", "o", "l", "i", "n", "a">> ELSE
    IF abbr = <<"C", "H", "I">> THEN <<"C", "h", "i", "c", "a", "g", "o">> ELSE
    IF abbr = <<"C", "B", "J">> THEN <<"C", "o", "l", "u", "m", "b", "u", "s">> ELSE
    IF abbr = <<"D", "A", "L">> THEN <<"D", "a", "l", "l", "a", "s">> ELSE
    IF abbr = <<"D", "E", "T">> THEN <<"D", "e", "t", "r", "o", "i", "t">> ELSE
    IF abbr = <<"F", "L", "A">> THEN <<"F", "l", "o", "r", "i", "d", "a">> ELSE
    IF abbr = <<"N", "S", "H">> THEN <<"N", "a", "s", "h", "v", "i", "l", "l", "e">> ELSE
    IF abbr = <<"T", "B", "L">> THEN <<"T", "a", "m", "p", "a", " ", "B", "a", "y">> ELSE
    IF abbr = <<"A", "N", "A">> THEN <<"A", "n", "a", "h", "e", "i", "m">> ELSE
    IF abbr = <<"C", "O", "L">> THEN <<"C", "o", "l", "o", "r", "a", "d", "o">> ELSE
    IF abbr = <<"L", "A", "K">> THEN <<"L", "o", "s", " ", "A", "n", "g", "e", "l", "e", "s">> ELSE
    IF abbr = <<"M", "I", "N">> THEN <<"M", "i", "n", "n", "e", "s", "o", "t", "a">> ELSE
    IF abbr = <<"S", "J", "S">> THEN <<"S", "a", "n", " ", "J", "o", "s", "e">> ELSE
    IF abbr = <<"S", "T", "L">> THEN <<"S", "t", ".", " ", "L", "o", "u", "i", "s">> ELSE
    IF abbr = <<"V", "G", "K">> THEN <<"V", "e", "g", "a", "s">> ELSE
    IF abbr = <<"C", "G", "Y">> THEN <<"C", "a", "l", "g", "a", "r", "y">> ELSE
    IF abbr = <<"E", "D", "M">> THEN <<"E", "d", "m", "o", "n", "t", "o", "n">> ELSE
    IF abbr = <<"M", "T", "L">> THEN <<"M", "o", "n", "t", "r", "e", "a", "l">> ELSE
    IF abbr = <<"O", "T", "T">> THEN <<"O", "t", "t", "a", "w", "a">> ELSE
    IF abbr = <<"T", "O", "R">> THEN <<"T", "o", "r", "o", "n", "t", "o">> ELSE
    IF abbr = <<"V", "A", "N">> THEN <<"V", "a", "n", "c", "o", "u", "v", "e", "r">> ELSE
    IF abbr = <<"W", "P", "G">> THEN <<"W", "i", "n", "n", "i", "p", "e", "g">> ELSE
    IF abbr = <<"S", "E", "A">> THEN <<"S", "e", "a", "t", "t", "l", "e">> ELSE
    IF abbr = <<"U", "T", "A">> THEN <<"U", "t", "a", "h">> ELSE
    <<"[", "u", "n", "k", "n", "o", "w", "n", "]">>

Spaces(n) == [i \in 1..n |-> " "]
\* {:<w} and {:>w}: padding up to the width w, never truncation
PadRight(text, w) == text \o Spaces(w - Len(text))
PadLeft(text, w) == Spaces(w - Len(text)) \o text

NAME_WIDTH == 15
MINUTE_WIDTH == 2
SCORE_WIDTH == 6

\* Display of a u64: -k stands for 2^64 - k = 18446744073709551616 - k
DisplayU64(v) ==
    IF v >= 0 THEN ToDecimal(v)
    ELSE <<"1", "8", "4", "4", "6", "7", "4", "4", "0", "7", "3", "7", "0", "9", "5", "5",
           "1">> \o ToDecimal(616 + v)

\* one print!/println! of the program: `color` is the colour macro used
\* ("none" for print!/println!), `nl` whether the macro ends the line, `kind`
\* names the statement that printed it
Seg(kind, color, text, nl) == [kind |-> kind, color |-> color, text |-> text, nl |-> nl]

Colored(opts, tty) == tty /\ opts.use_colors

print_header(g, opts, tty) ==
    LET teams == PadRight(translate_team_name(g.home), NAME_WIDTH) \o <<" ">>
                     \o PadLeft(<<"-">>, 2) \o <<" ">>
                     \o PadRight(translate_team_name(g.away), NAME_WIDTH) \o <<" ">>
                     \o PadRight(<<>>, 2) \o <<" ">>
        c(color) == IF Colored(opts, tty) THEN color ELSE "none"
    IN  <<Seg("header", c("white"), teams, FALSE)>> \o
        (IF g.status = "LIVE"
         THEN <<Seg("score", c("white"), PadLeft(g.score, SCORE_WIDTH), TRUE)>>
         ELSE IF g.status = "FINAL"
         THEN <<Seg("score", c("green"),
                    PadLeft(g.special \o <<" ">> \o g.score, SCORE_WIDTH), TRUE)>>
         ELSE IF g.status = "POSTPONED"
         THEN <<Seg("score", c("white"), PadLeft(<<"P", "O", "S", "T", "P", ".">>, SCORE_WIDTH),
                    TRUE)>>
         ELSE <<>>)

\* the colour of a goal entry
GoalColor(gl, hl, opts, tty) ==
    IF ~Colored(opts, tty) THEN "none"
    ELSE IF gl.special THEN "magenta"
    ELSE IF opts.show_highlights /\ Contains(hl, gl.scorer.last_name) THEN "yellow"
    ELSE "cyan"

GoalText(gl) ==
    PadRight(gl.scorer.last_name, NAME_WIDTH) \o <<" ">>
        \o PadLeft(DisplayU64(gl.minute), MINUTE_WIDTH)

print_both_goals(home, away, hl, opts, tty) ==
    <<Seg("home", GoalColor(home, hl, opts, tty), GoalText(home) \o <<" ">>, FALSE),
      Seg("away", GoalColor(away, hl, opts, tty), GoalText(away), TRUE)>>

print_home_goal(home, hl, opts, tty) ==
    <<Seg("home", GoalColor(home, hl, opts, tty), GoalText(home), TRUE)>>

print_away_goal_unpadded(away, hl, opts, tty) ==
    <<Seg("away", GoalColor(away, hl, opts, tty), GoalText(away), TRUE)>>

print_away_goal(away, hl, opts, tty) ==
    <<Seg("away", GoalColor(away, hl, opts, tty),
          PadRight(<<>>, NAME_WIDTH) \o <<" ">> \o PadLeft(<<>>, MINUTE_WIDTH) \o <<" ">>
              \o GoalText(away), TRUE)>>

FilterGoals_keeps_shootout(gs, team, special) ==
    SelectSeq(gs, LAMBDA gl : gl.team = team)

RECURSIVE FilterGoals(_, _, _)
FilterGoals(gs, team, special) ==
    IF gs = <<>> THEN <<>>
    ELSE (IF /\ gs[1].team = team
             /\ \/ gs[1].minute # SHOOTOUT_MINUTE
                \/ gs[1].minute = SHOOTOUT_MINUTE /\ special = <<"o", "t">>
          THEN <<gs[1]>> ELSE <<>>) \o FilterGoals(Tail(gs), team, special)

\* the loop over home_scores.iter().zip_longest(away_scores.iter())
RECURSIVE print_score_pairs(_, _, _, _, _)
print_score_pairs(hs, as, hl, opts, tty) ==
    IF hs = <<>> /\ as = <<>> THEN <<>>
    ELSE IF as = <<>>
    THEN print_home_goal(hs[1], hl, opts, tty) \o print_score_pairs(Tail(hs), as, hl, opts, tty)
    ELSE IF hs = <<>>
    THEN print_away_goal(as[1], hl, opts, tty) \o print_score_pairs(hs, Tail(as), hl, opts, tty)
    ELSE print_both_goals(hs[1], as[1], hl, opts, tty)
             \o print_score_pairs(Tail(hs), Tail(as), hl, opts, tty)

\* Printed(out) or Aborted(out): the prints made, and whether a panic ended them
Printed(out) == [out |-> out, panic |-> FALSE]
Aborted(out) == [out |-> out, panic |-> TRUE]

print_stats(gs, hl, opts, order) ==
    LET msg == craft_stats_message(gs, hl, order)
    IN  IF IsPanic(msg) THEN Aborted(<<>>)
        ELSE IF ~IsSome(msg.val) THEN Printed(<<>>)
        ELSE Printed(<<Seg("stats",
                           IF opts.show_highlights THEN "yellow"
                           ELSE IF opts.use_colors THEN "white" ELSE "none",
                           Unwrap(msg.val), TRUE),
                       Seg("blank", "none", <<>>, TRUE)>>)

print_game_stats_unasked(g, hl, opts, order) ==
    IF hl # <<>> THEN print_stats(g.goals, hl, opts, order) ELSE Printed(<<>>)

\* the stats step of print_game
print_game_stats(g, hl, opts, order) ==
    IF opts.show_stats /\ hl # <<>> THEN print_stats(g.goals, hl, opts, order)
    ELSE Printed(<<>>)

\* Value indexing: Null unless the value is an object holding the key
ValueIndex(v, key) ==
    IF v.json = "object" /\ key \in DOMAIN v.o THEN v.o[key] ELSE Null

print_series(g, opts, tty) ==
    IF ~IsSome(g.playoff_series) THEN Printed(<<>>)
    ELSE LET playoff_series == Unwrap(g.playoff_series)
         IN  IF "wins" \notin DOMAIN playoff_series THEN Aborted(<<>>)
             ELSE LET series_wins == playoff_series["wins"]
                      text == <<"S", "e", "r", "i", "e", "s", " ">>
                                  \o DisplayValue(ValueIndex(series_wins, g.home)) \o <<"-">>
                                  \o DisplayValue(ValueIndex(series_wins, g.away))
                  IN  Printed(<<Seg("series",
                                    IF Colored(opts, tty) THEN "yellow" ELSE "none",
                                    text, TRUE),
                                Seg("blank", "none", <<>>, TRUE)>>)

\* print_game when the stats map enumerates its keys in `order`
print_game(g, hl, opts, tty, order) ==
    LET home_scores == FilterGoals(g.goals, g.home, g.special)
        away_scores == FilterGoals(g.goals, g.away, g.special)
        shootout ==
            IF g.special = <<"s", "o">>
            THEN LET shootout_goal == g.goals[Len(g.goals)]
                 IN  IF shootout_goal.team = g.home
                     THEN print_home_goal(shootout_goal, hl, opts, tty)
                     ELSE print_away_goal(shootout_goal, hl, opts, tty)
            ELSE <<>>
        st == print_game_stats(g, hl, opts, order)
        series == print_series(g, opts, tty)
    IN  IF g.special = <<"s", "o">> /\ g.goals = <<>> THEN Aborted(<<>>)
        ELSE LET scores == print_header(g, opts, tty)
                               \o print_score_pairs(home_scores, away_scores, hl, opts, tty)
                               \o shootout \o <<Seg("blank", "none", <<>>, TRUE)>>
             IN  IF st.panic THEN Aborted(scores)
                 ELSE IF series.panic THEN Aborted(scores \o st.out)
                 ELSE Printed(scores \o st.out \o series.out)

----------------------------------------------------------------------------
(* parse_highlight_config *)

LF == "\n"
CR == "\r"

\* str::lines: the text is cut after every LF; a piece loses its LF and then
\* one CR before it; a last piece without LF is returned as it is; no empty
\* piece follows a final LF.
lines(s) ==
    LET pieces == Split(s, LF)
        n == Len(pieces)
        StripCR(x) == IF x # <<>> /\ x[Len(x)] = CR THEN SubSeq(x, 1, Len(x) - 1) ELSE x
        terminated == [i \in 1..(n - 1) |-> StripCR(pieces[i])]
    IN  IF pieces[n] = <<>> THEN terminated ELSE terminated \o <<pieces[n]>>

RECURSIVE FilterNonEmpty(_)
FilterNonEmpty(ls) ==
    IF ls = <<>> THEN <<>>
    ELSE (IF ls[1] # <<>> THEN <<ls[1]>> ELSE <<>>) \o FilterNonEmpty(Tail(ls))

parse_highlight_config_keeps_cr(content) == Ok(FilterNonEmpty(Split(content, LF)))

parse_highlight_config(content) == Ok(FilterNonEmpty(lines(content)))

----------------------------------------------------------------------------
(* main, fetch_games, parse_games, print_games, handle_request_error *)

MSG_CONNECT ==
    <<"E", "R", "R", "O", "R", ":", " ", "C", "a", "n", "'", "t", " ", "c", "o", "n",
      "n", "e", "c", "t", " ", "t", "o", " ", "t", "h", "e", " ", "A", "P", "I", ".",
      " ", "I", "t", " ", "m", "i", "g", "h", "t", " ", "b", "e", " ", "b", "e", "c",
      "a", "u", "s", "e", " ", "y", "o", "u", "r", " ", "I", "n", "t", "e", "r", "n",
      "e", "t", " ", "c", "o", "n", "n", "e", "c", "t", "i", "o", "n", " ", "i", "s",
      " ", "d", "o", "w", "n", ".">>
MSG_TIMEOUT ==
    <<"E", "R", "R", "O", "R", ":", " ", "A", "P", "I", " ", "t", "i", "m", "e", "d",
      " ", "o", "u", "t", ".", " ", "T", "r", "y", " ", "a", "g", "a", "i", "n", " ",
      "l", "a", "t", "e", "r", ".">>
MSG_DECODE ==
    <<"E", "R", "R", "O", "R", ":", " ", "A", "P", "I", " ", "r", "e", "t", "u", "r",
      "n", "e", "d", " ", "m", "a", "l", "f", "o", "r", "m", "e", "d", " ", "d", "a",
      "t", "a", ".", " ", "T", "r", "y", " ", "a", "g", "a", "i", "n", " ", "l", "a",
      "t", "e", "r", ".">>
MSG_UNKNOWN ==
    <<"E", "R", "R", "O", "R", ":", " ", "U", "n", "k", "n", "o", "w", "n", " ", "e",
      "r", "r", "o", "r", ".">>
MSG_NO_GAMES ==
    <<"N", "o", " ", "g", "a", "m", "e", "s", " ", "t", "o", "d", "a", "y", ".">>

\* the text of println!("{:?}", e) and of the version: not modelled further
DEBUG_TEXT == <<"{", ":", "?", "}">>
VERSION_TEXT == <<"C", "A", "R", "G", "O", "_", "P", "K", "G", "_", "V", "E", "R", "S", "I", "O", "N">>

Err(why) == [kind |-> "err", why |-> why]

\* read_highlight_config().unwrap_or_default(): an absent or unreadable file
\* gives the empty list
read_highlight_config(config_file) ==
    IF IsSome(config_file) THEN parse_highlight_config(Unwrap(config_file)) ELSE Err("io")

\* fetch_games: the transport fails, or the body is decoded into an
\* APIResponse; an entry without its teams block fails the decoding of the
\* whole document (GameResponse.teams is not optional)
fetch_games(e) ==
    IF e.network # "ok" THEN Err(e.network)
    ELSE IF \E i \in 1..Len(e.feed) : ~IsSome(e.feed[i].teams) THEN Err("decode")
    ELSE Ok([games |-> [i \in 1..Len(e.feed) |->
                           [e.feed[i] EXCEPT !.teams = Unwrap(e.feed[i].teams)]]])

RECURSIVE parse_games_from(_)
parse_games_from(gs) ==
    IF gs = <<>> THEN Ok(<<>>)
    ELSE LET first == parse_game(gs[1])
         IN  IF IsPanic(first) THEN first
             ELSE LET rest == parse_games_from(Tail(gs))
                  IN  IF IsPanic(rest) THEN rest ELSE Ok(<<first.val>> \o rest.val)

parse_games(scores) == parse_games_from(scores.games)

\* the for_each of print_games; orders[i] is the order in which the stats map
\* of the i-th game enumerates its keys
RECURSIVE print_each_game(_, _, _, _, _)
print_each_game(gs, hl, opts, tty, orders) ==
    IF gs = <<>> THEN Printed(<<>>)
    ELSE IF ~IsSome(gs[1]) THEN print_each_game(Tail(gs), hl, opts, tty, Tail(orders))
    ELSE LET first == print_game(Unwrap(gs[1]), hl, opts, tty, orders[1])
         IN  IF first.panic THEN first
             ELSE LET rest == print_each_game(Tail(gs), hl, opts, tty, Tail(orders))
                  IN  [out |-> first.out \o rest.out, panic |-> rest.panic]

print_games(gs, hl, opts, tty, orders) ==
    IF Len(gs) = 0 THEN Printed(<<Seg("nogames", "none", MSG_NO_GAMES, TRUE)>>)
    ELSE print_each_game(gs, hl, opts, tty, orders)

handle_request_error_silent_unknown(e) ==
    IF e.why = "connect" THEN <<Seg("error", "none", MSG_CONNECT, TRUE)>>
    ELSE IF e.why = "timeout" THEN <<Seg("error", "none", MSG_TIMEOUT, TRUE)>>
    ELSE IF e.why = "decode"
    THEN <<Seg("error", "none", MSG_DECODE, TRUE), Seg("debug", "none", DEBUG_TEXT, TRUE)>>
    ELSE <<Seg("debug", "none", DEBUG_TEXT, TRUE)>>

handle_request_error(e) ==
    IF e.why = "connect" THEN <<Seg("error", "none", MSG_CONNECT, TRUE)>>
    ELSE IF e.why = "timeout" THEN <<Seg("error", "none", MSG_TIMEOUT, TRUE)>>
    ELSE IF e.why = "decode"
    THEN <<Seg("error", "none", MSG_DECODE, TRUE), Seg("debug", "none", DEBUG_TEXT, TRUE)>>
    ELSE <<Seg("error", "none", MSG_UNKNOWN, TRUE), Seg("debug", "none", DEBUG_TEXT, TRUE)>>

\* the orders the stats maps of the games may take, one per game
RECURSIVE OrderChoices(_, _)
OrderChoices(gs, hl) ==
    IF gs = <<>> THEN {<<>>}
    ELSE LET keys == IF IsSome(gs[1])
                     THEN DOMAIN count_stats(Unwrap(gs[1]).goals, hl, EmptyStats) ELSE {}
         IN  {<<o>> \o rest : o \in Orders(keys), rest \in OrderChoices(Tail(gs), hl)}

----------------------------------------------------------------------------
(* Input domains *)

CBJ == <<"C", "B", "J">>
TBL == <<"T", "B", "L">>
QuotedCBJ == <<"\"">> \o CBJ \o <<"\"">>

PeriodChars == {"0", "1", "2", "3", "4", "O", "T", "S", "P", "+"}
PeriodStrings == StringsUpTo(PeriodChars, MaxPeriodLen)
Mins == 0..(PERIOD_MINUTES - 1)

NameChars == {"a", "b", " "}
NameStrings == StringsUpTo(NameChars, MaxNameLen)

NickFoligno == <<"N", "i", "c", "k", " ", "F", "o", "l", "i", "g", "n", "o">>
CamAtkinson == <<"C", "a", "m", " ", "A", "t", "k", "i", "n", "s", "o", "n">>

ConfigChars == {"a", " ", LF, CR}
ConfigStrings == StringsUpTo(ConfigChars, MaxConfigLen)

\* Feed games. A playoff series record is the "wins" object of the feed, a
\* map from team abbreviation to a number, under the keys the record holds.
GamePeriods == {<<"1">>, <<"2">>, <<"3">>, <<"4">>, <<"O", "T">>, <<"S", "O">>, <<"S", "P">>}

GameGoalResponses ==
    [period  : GamePeriods,
     min     : {None, Some(5), Some(10)},
     team    : {CBJ, TBL},
     scorer  : {NickFoligno},
     assists : {None}]

GoalListsUpTo(G, n) == UNION {[1..k -> G] : k \in 0..n}

SeriesWins == (CBJ :> Num(2)) @@ (TBL :> Num(1))

GameFrames ==
    {[state |-> "LIVE", scores |-> (CBJ :> Num(4)) @@ (TBL :> Num(2)),
      playoff_series |-> None],
     [state |-> "FINAL", scores |-> (CBJ :> Str(<<"4">>)) @@ (TBL :> Str(<<"2">>)),
      playoff_series |-> Some("wins" :> Obj(SeriesWins))],
     [state |-> "FINAL", scores |-> (CBJ :> Num(4)) @@ (TBL :> Num(2)),
      playoff_series |-> None],
     [state |-> "POSTPONED", scores |-> (CBJ :> Num(0)) @@ (TBL :> Num(0)),
      playoff_series |-> None],
     [state |-> "LIVE", scores |-> (CBJ :> Num(4)),
      playoff_series |-> None],
     [state |-> "PREVIEW", scores |-> (TBL :> Num(2)),
      playoff_series |-> None]}

GameResponse(frame, gl) ==
    [status |-> [state |-> frame.state],
     goals  |-> gl,
     scores |-> frame.scores,
     teams  |-> [home |-> [abbreviation |-> CBJ], away |-> [abbreviation |-> TBL]],
     current_stats |-> [playoff_series |-> frame.playoff_series]]

GameResponses ==
    {GameResponse(f, gl) :
        f \in GameFrames,
        gl \in {None} \cup {Some(l) : l \in GoalListsUpTo(GameGoalResponses, MaxGoals)}}

\* Feed games for the renderer
Foligno == <<"F", "o", "l", "i", "g", "n", "o">>

PrintGoalResponses ==
    {[period |-> t.period, min |-> t.min, team |-> team, scorer |-> who.scorer,
      assists |-> who.assists] :
        t \in {[period |-> <<"1">>, min |-> Some(5)],
               [period |-> <<"O", "T">>, min |-> Some(5)],
               [period |-> <<"S", "O">>, min |-> None]},
        team \in {CBJ, TBL},
        who \in {[scorer |-> NickFoligno, assists |-> None],
                 [scorer |-> CamAtkinson, assists |-> Some(<<NickFoligno>>)]}}

PrintFrames ==
    {[state |-> "LIVE", scores |-> (CBJ :> Num(4)) @@ (TBL :> Num(2)),
      playoff_series |-> None],
     [state |-> "FINAL", scores |-> (CBJ :> Num(4)) @@ (TBL :> Num(2)),
      playoff_series |-> Some("wins" :> Obj(SeriesWins))],
     [state |-> "FINAL", scores |-> (CBJ :> Str(<<"4">>)) @@ (TBL :> Str(<<"2">>)),
      playoff_series |-> Some("round" :> Num(1))],
     [state |-> "POSTPONED", scores |-> (CBJ :> Num(0)) @@ (TBL :> Num(0)),
      playoff_series |-> None],
     [state |-> "PREVIEW", scores |-> (CBJ :> Num(0)) @@ (TBL :> Num(0)),
      playoff_series |-> None]}

PrintGameResponses ==
    {GameResponse(f, gl) :
        f \in PrintFrames,
        gl \in {Some(l) : l \in GoalListsUpTo(PrintGoalResponses, MaxGoals)}}

\* The feed entries of the whole run: the teams block of an entry may be
\* missing, as may a key of its scores
FeedGoal(period, min, team, scorer) ==
    [period |-> period, min |-> min, team |-> team, scorer |-> scorer, assists |-> None]

FeedEntry(teams, state, scores, gl, series) ==
    [status |-> [state |-> state],
     goals  |-> gl,
     scores |-> scores,
     teams  |-> teams,
     current_stats |-> [playoff_series |-> series]]

BothTeams == Some([home |-> [abbreviation |-> CBJ], away |-> [abbreviation |-> TBL]])
BothScores == (CBJ :> Num(4)) @@ (TBL :> Num(2))
TwoGoals == Some(<<FeedGoal(<<"1">>, Some(5), CBJ, NickFoligno),
                   FeedGoal(<<"2">>, Some(13), TBL, CamAtkinson)>>)

LiveEntry == FeedEntry(BothTeams, "LIVE", BothScores, TwoGoals, None)
ShootoutEntry ==
    FeedEntry(BothTeams, "FINAL", BothScores,
              Some(<<FeedGoal(<<"1">>, Some(5), CBJ, NickFoligno),
                     FeedGoal(<<"S", "O">>, None, TBL, CamAtkinson)>>), None)
PlayoffEntry ==
    FeedEntry(BothTeams, "FINAL", BothScores,
              Some(<<FeedGoal(<<"4">>, Some(12), CBJ, NickFoligno)>>),
              Some("wins" :> Obj(SeriesWins)))
NotStartedEntry == FeedEntry(BothTeams, "PREVIEW", BothScores, None, None)
PostponedEntry == FeedEntry(BothTeams, "POSTPONED", BothScores, None, None)
NoTeamsEntry == FeedEntry(None, "LIVE", BothScores, TwoGoals, None)
NoHomeScoreEntry == FeedEntry(BothTeams, "LIVE", (TBL :> Num(2)), TwoGoals, None)
NoAwayScoreEntry == FeedEntry(BothTeams, "LIVE", (CBJ :> Num(4)), TwoGoals, None)
BadPeriodEntry ==
    FeedEntry(BothTeams, "LIVE", BothScores,
              Some(<<FeedGoal(<<"S", "P">>, Some(5), CBJ, NickFoligno)>>), None)
NoMinEntry ==
    FeedEntry(BothTeams, "LIVE", BothScores,
              Some(<<FeedGoal(<<"1">>, None, CBJ, NickFoligno)>>), None)

FeedEntries ==
    {LiveEntry, ShootoutEntry, PlayoffEntry, NotStartedEntry, PostponedEntry, NoTeamsEntry,
     NoHomeScoreEntry, NoAwayScoreEntry, BadPeriodEntry, NoMinEntry}

Feeds == UNION {[1..k -> FeedEntries] : k \in 0..MaxGames}

FolignoFile == Foligno \o <<LF>>

Envs ==
    {[home |-> TRUE, config_file |-> f, network |-> "ok", feed |-> d] :
        f \in {None, Some(FolignoFile)}, d \in Feeds}
    \cup {[home |-> TRUE, config_file |-> None, network |-> n, feed |-> <<>>] :
             n \in {"connect", "timeout", "decode", "other"}}
    \cup {[home |-> FALSE, config_file |-> None, network |-> "ok", feed |-> <<>>]}

CliArgs == [version : BOOLEAN, nocolors : BOOLEAN, highlight : BOOLEAN, stats : BOOLEAN]

OptionsSet == [use_colors : BOOLEAN, show_highlights : BOOLEAN, show_stats : BOOLEAN]

PrintHighlightLists == {<<>>, <<Foligno>>}

\* Goals and highlight lists for the stats
NJD == <<"N", "J", "D">>
VAN == <<"V", "A", "N">>
PIT == <<"P", "I", "T">>
Hughes == <<"H", "u", "g", "h", "e", "s">>
Crosby == <<"C", "r", "o", "s", "b", "y">>
JackHughes == [first_name |-> <<"J", "a", "c", "k">>, last_name |-> Hughes, team |-> NJD]
QuinnHughes == [first_name |-> <<"Q", "u", "i", "n", "n">>, last_name |-> Hughes, team |-> VAN]
LukeHughes == [first_name |-> <<"L", "u", "k", "e">>, last_name |-> Hughes, team |-> NJD]
NamelessHughes == [first_name |-> <<>>, last_name |-> Hughes, team |-> NJD]
SidneyCrosby == [first_name |-> <<"S", "i", "d", "n", "e", "y">>, last_name |-> Crosby,
                 team |-> PIT]

StatsGoals ==
    [scorer  : {JackHughes, QuinnHughes, LukeHughes, NamelessHughes, SidneyCrosby},
     assists : {<<>>, <<QuinnHughes>>, <<SidneyCrosby, JackHughes>>},
     minute  : {21, SHOOTOUT_MINUTE},
     special : {FALSE},
     team    : {NJD}]

HighlightLists == {<<>>, <<Hughes>>, <<Crosby, Hughes>>}

GoalResponses ==
    [period  : PeriodStrings,
     min     : {None} \cup {Some(m) : m \in Mins},
     team    : {CBJ},
     scorer  : {NickFoligno},
     assists : {None, Some(<<CamAtkinson>>)}]

----------------------------------------------------------------------------
(* The variables a specification does not use keep these values *)

IdleGoal == goal_json = NoValue /\ goal = NoValue /\ special_flag = NoValue
IdlePlayer == player_in = NoValue /\ player = NoValue
IdleConfig == config = <<>> /\ highlights = NoValue
IdleGame == game_json = NoValue /\ game = NoValue
IdleStats == goals = <<>> /\ stats = NoValue /\ message = NoValue
IdlePrint == options = NoValue /\ is_tty = FALSE /\ stdout = <<>>
IdleMain ==
    /\ args = NoValue /\ env = NoValue /\ response = NoValue
    /\ parsed_games = NoValue /\ exit_code = None

----------------------------------------------------------------------------
(* SpecGoal: one feed goal through the goal closure of parse_game *)

InitGoal ==
    /\ overflow_checks \in BOOLEAN
    /\ pc = "start"
    /\ goal_json \in GoalResponses
    /\ goal = NoValue
    /\ special_flag = NoValue
    /\ IdlePlayer /\ IdleConfig /\ IdleGame /\ IdleStats /\ IdlePrint /\ IdleMain

ParseGoal ==
    /\ pc = "start"
    /\ goal' = parse_game_goal(goal_json)
    /\ pc' = "done"
    /\ UNCHANGED <<overflow_checks, mainVars, goal_json, special_flag, playerVars, configVars,
                   gameVars, statsVars, printVars>>

IsSpecial ==
    /\ pc = "start"
    /\ special_flag' = Ok(is_special(goal_json))
    /\ pc' = "flagged"
    /\ UNCHANGED <<overflow_checks, mainVars, goal_json, goal, playerVars, configVars, gameVars,
                   statsVars, printVars>>

NextGoal == ParseGoal \/ IsSpecial

SpecGoal == InitGoal /\ [][NextGoal]_vars

----------------------------------------------------------------------------
(* SpecPlayer: extract_player on a name and a team *)

InitPlayer ==
    /\ overflow_checks = FALSE
    /\ pc = "start"
    /\ player_in \in [name : NameStrings, team : {CBJ, TBL, QuotedCBJ}]
    /\ player = NoValue
    /\ IdleGoal /\ IdleConfig /\ IdleGame /\ IdleStats /\ IdlePrint /\ IdleMain

ExtractPlayer ==
    /\ pc = "start"
    /\ player' = extract_player(player_in.name, player_in.team)
    /\ pc' = "done"
    /\ UNCHANGED <<overflow_checks, mainVars, player_in, goalVars, configVars, gameVars, statsVars,
                   printVars>>

NextPlayer == ExtractPlayer

SpecPlayer == InitPlayer /\ [][NextPlayer]_vars

----------------------------------------------------------------------------
(* Claims on the goal conversion *)

\* the period numbers the claims are checked for
PeriodNumbers == 1..MaxPeriodNumber

\* C1: a feed goal with min in 0..19 gets minute 65 when its period is "SO"
\* (whatever min is), 60 + min when it is "OT", and 20 * (P - 1) + min when
\* it is the decimal string of an integer P >= 1.
C1_MinuteFromPeriod ==
    pc = "done" =>
        /\ goal_json.period = <<"S", "O">> =>
              IsOk(goal) /\ goal.val.minute = 65
        /\ IsSome(goal_json.min) /\ goal_json.period = <<"O", "T">> =>
              IsOk(goal) /\ goal.val.minute = 60 + Unwrap(goal_json.min)
        /\ \A P \in PeriodNumbers :
              IsSome(goal_json.min) /\ goal_json.period = ToDecimal(P) =>
                  IsOk(goal) /\ goal.val.minute = 20 * (P - 1) + Unwrap(goal_json.min)

C1_Witness ==
    /\ pc = "done"
    /\ goal_json.period = <<"4">>
    /\ goal_json.min = Some(12)
    /\ IsOk(goal)
    /\ goal.val.minute = 72

\* a numeral as str::parse::<u64> reads it: an optional "+", then one or
\* more decimal digits; it denotes a number below 4 when every digit but the
\* last is "0" and the last is one of "0".."3"
NumeralBody(s) == IF s # <<>> /\ s[1] = "+" THEN SubSeq(s, 2, Len(s)) ELSE s
IsNumeral(s) ==
    /\ NumeralBody(s) # <<>>
    /\ \A i \in 1..Len(NumeralBody(s)) : NumeralBody(s)[i] \in Digits
DenotesBelowFour(s) ==
    LET b == NumeralBody(s)
    IN  /\ \A i \in 1..(Len(b) - 1) : b[i] = "0"
        /\ b[Len(b)] \in {"0", "1", "2", "3"}

\* C2: is_special returns for every period string, and the flag is true
\* exactly when the period parses as an integer >= 4 or does not parse as an
\* integer at all.
C2_SpecialFlag ==
    LET s == goal_json.period
        expected == ~IsNumeral(s) \/ ~DenotesBelowFour(s)
    IN  /\ pc = "flagged" => IsOk(special_flag) /\ special_flag.val = expected
        /\ pc = "done" /\ IsOk(goal) => goal.val.special = expected

C2_Witness ==
    \/ pc = "flagged" /\ goal_json.period = <<"S", "P">> /\ special_flag = Ok(TRUE)
    \/ pc = "done" /\ goal_json.period = <<"4">> /\ IsOk(goal) /\ goal.val.special

----------------------------------------------------------------------------
(* Claims on extract_player *)

\* C8: extract_player splits the name at its first space, keeps later
\* spaces in last_name, gives an empty last_name to a single token and
\* carries the team unchanged.
C8_SplitAtFirstSpace ==
    pc = "done" /\ player # NoValue =>
        LET n == player_in.name
            HasSpace(s) == \E i \in 1..Len(s) : s[i] = " "
        IN  /\ player.team = player_in.team
            /\ ~HasSpace(player.first_name)
            /\ IF HasSpace(n)
               THEN n = player.first_name \o <<" ">> \o player.last_name
               ELSE player.first_name = n /\ player.last_name = <<>>

C8_Witness ==
    /\ pc = "done"
    /\ player_in.name = <<"a", " ", "a", " ", "b">>
    /\ player # NoValue
    /\ player.first_name = <<"a">>
    /\ player.last_name = <<"a", " ", "b">>
    /\ player.team = player_in.team

----------------------------------------------------------------------------
(* SpecConfig: parse_highlight_config on the contents of the highlight file *)

InitConfig ==
    /\ overflow_checks = FALSE
    /\ pc = "start"
    /\ config \in ConfigStrings
    /\ highlights = NoValue
    /\ IdleGoal /\ IdlePlayer /\ IdleGame /\ IdleStats /\ IdlePrint /\ IdleMain

ParseHighlightConfig ==
    /\ pc = "start"
    /\ highlights' = parse_highlight_config(config)
    /\ pc' = "done"
    /\ UNCHANGED <<overflow_checks, mainVars, config, goalVars, playerVars, gameVars, statsVars,
                   printVars>>

NextConfig == ParseHighlightConfig

SpecConfig == InitConfig /\ [][NextConfig]_vars

----------------------------------------------------------------------------
(* Claims on parse_highlight_config *)

RECURSIVE ToCRLF(_)
ToCRLF(s) ==
    IF s = <<>> THEN <<>>
    ELSE (IF s[1] = LF THEN <<CR, LF>> ELSE <<s[1]>>) \o ToCRLF(Tail(s))

\* the non-empty lines of s, read character by character: `cur` is the line
\* being read, `acc` the lines found so far
RECURSIVE ScanLines(_, _, _)
ScanLines(s, cur, acc) ==
    LET Emit(l) == IF l = <<>> THEN acc ELSE Append(acc, l)
    IN  IF s = <<>> THEN Emit(cur)
        ELSE IF s[1] = LF
        THEN ScanLines(Tail(s), <<>>,
                       Emit(IF cur # <<>> /\ cur[Len(cur)] = CR
                            THEN SubSeq(cur, 1, Len(cur) - 1) ELSE cur))
        ELSE ScanLines(Tail(s), Append(cur, s[1]), acc)

\* C10: a content with LF line endings and the same content with every LF
\* replaced by CRLF give the same list; the list holds the non-empty lines in
\* file order and never an empty line.
C10_LineEndings ==
    pc = "done" =>
        /\ IsOk(highlights)
        /\ (\A i \in 1..Len(config) : config[i] # CR) =>
               highlights = parse_highlight_config(ToCRLF(config))
        /\ highlights.val = ScanLines(config, <<>>, <<>>)
        /\ \A i \in 1..Len(highlights.val) : highlights.val[i] # <<>>

C10_Witness ==
    /\ pc = "done"
    /\ config = <<"a", LF, LF, "a">>
    /\ highlights = Ok(<<<<"a">>, <<"a">>>>)
    /\ parse_highlight_config(<<"a", CR, LF, CR, LF, "a">>) = highlights

----------------------------------------------------------------------------
(* SpecGame: parse_game on one feed game *)

InitGame ==
    /\ overflow_checks \in BOOLEAN
    /\ pc = "start"
    /\ game_json \in GameResponses
    /\ game = NoValue
    /\ IdleGoal /\ IdlePlayer /\ IdleConfig /\ IdleStats /\ IdlePrint /\ IdleMain

ParseGame ==
    /\ pc = "start"
    /\ game' = parse_game(game_json)
    /\ pc' = "done"
    /\ UNCHANGED <<overflow_checks, mainVars, game_json, goalVars, playerVars, configVars, statsVars,
                   printVars>>

NextGame == ParseGame

SpecGame == InitGame /\ [][NextGame]_vars

----------------------------------------------------------------------------
(* Claims on parse_game *)

FeedGoals == IF IsSome(game_json.goals) THEN Unwrap(game_json.goals) ELSE <<>>
Parsed == pc = "done" /\ IsOk(game) /\ IsSome(game.val)

\* C3: the special marker of a Game is one of "", "ot", "so" and is decided
\* by the period of the last goal of the feed alone: "" without goals and
\* for "1", "2", "3"; "ot" for "OT"; "so" for "SO"; "ot" for anything else.
C3_SpecialFromLastGoal ==
    Parsed =>
        LET special == Unwrap(game.val).special
            n == Len(FeedGoals)
        IN  /\ special \in {<<>>, <<"o", "t">>, <<"s", "o">>}
            /\ n = 0 => special = <<>>
            /\ n > 0 =>
                 LET last == FeedGoals[n].period
                 IN  /\ last \in {<<"1">>, <<"2">>, <<"3">>} => special = <<>>
                     /\ last = <<"O", "T">> => special = <<"o", "t">>
                     /\ last = <<"S", "O">> => special = <<"s", "o">>
                     /\ last \notin {<<"1">>, <<"2">>, <<"3">>, <<"O", "T">>, <<"S", "O">>}
                            => special = <<"o", "t">>

C3_Witness ==
    /\ Parsed
    /\ Len(FeedGoals) = 2
    /\ FeedGoals[1].period = <<"S", "O">>
    /\ FeedGoals[2].period = <<"4">>
    /\ Unwrap(game.val).special = <<"o", "t">>

----------------------------------------------------------------------------
(* SpecStats: count_stats and craft_stats_message on a list of goals *)

InitStats ==
    /\ overflow_checks = FALSE
    /\ pc = "start"
    /\ goals \in GoalListsUpTo(StatsGoals, MaxGoals)
    /\ highlights \in HighlightLists
    /\ config = <<>>
    /\ stats = NoValue
    /\ message = NoValue
    /\ IdleGoal /\ IdlePlayer /\ IdleGame /\ IdlePrint /\ IdleMain

CountStats ==
    /\ pc = "start"
    /\ stats' = count_stats(goals, highlights, EmptyStats)
    /\ pc' = "counted"
    /\ UNCHANGED <<overflow_checks, mainVars, goals, message, goalVars, playerVars, configVars,
                   gameVars, printVars>>

CraftStatsMessage ==
    /\ pc = "start"
    /\ stats' = count_stats(goals, highlights, EmptyStats)
    /\ \E order \in Orders(DOMAIN stats') :
           message' = craft_stats_message(goals, highlights, order)
    /\ pc' = "crafted"
    /\ UNCHANGED <<overflow_checks, mainVars, goals, goalVars, playerVars, configVars, gameVars,
                   printVars>>

NextStats == CountStats \/ CraftStatsMessage

SpecStats == InitStats /\ [][NextStats]_vars

----------------------------------------------------------------------------
(* Claims on the stats *)

RECURSIVE WithoutShootout(_)
WithoutShootout(gs) ==
    IF gs = <<>> THEN <<>>
    ELSE (IF gs[1].minute = 65 THEN <<>> ELSE <<gs[1]>>) \o WithoutShootout(Tail(gs))

\* C5: a goal at the shootout minute 65 adds nothing to any count: the map
\* and the message are those of the list without these goals.
C5_ShootoutNotCounted ==
    /\ pc \in {"counted", "crafted"} =>
           stats = count_stats(WithoutShootout(goals), highlights, EmptyStats)
    /\ pc = "crafted" =>
           \E order \in Orders(DOMAIN stats) :
               message = craft_stats_message(WithoutShootout(goals), highlights, order)

C5_Witness ==
    /\ pc = "crafted"
    /\ Len(goals) = 2
    /\ goals[1].scorer = SidneyCrosby /\ goals[1].minute = 21 /\ goals[1].assists = <<>>
    /\ goals[2].scorer = SidneyCrosby /\ goals[2].minute = 65 /\ goals[2].assists = <<>>
    /\ highlights = <<Crosby, Hughes>>
    /\ message = Ok(Some(<<"(">> \o Crosby \o <<" ", "1", "+", "0", ")">>))

Counted(i) == goals[i].minute # 65
GoalsOf(p) == {i \in 1..Len(goals) : Counted(i) /\ goals[i].scorer = p}
AssistSlotsOf(p) ==
    {ij \in (1..Len(goals)) \X (1..2) :
        /\ Counted(ij[1])
        /\ ij[2] <= Len(goals[ij[1]].assists)
        /\ goals[ij[1]].assists[ij[2]] = p}
PlayersOfGoals ==
    UNION {{goals[i].scorer} \cup {goals[i].assists[j] : j \in 1..Len(goals[i].assists)} :
              i \in 1..Len(goals)}

\* C6: the map holds a Player exactly when its last name is highlighted and
\* it scored or assisted a goal not at minute 65; its goals and assists are
\* the numbers of such goals and assist slots of exactly that Player.
C6_StatsEntries ==
    pc = "counted" =>
        \A p \in PlayersOfGoals \cup DOMAIN stats :
            /\ p \in DOMAIN stats <=>
                   /\ Contains(highlights, p.last_name)
                   /\ GoalsOf(p) # {} \/ AssistSlotsOf(p) # {}
            /\ p \in DOMAIN stats =>
                   /\ stats[p].goals = Cardinality(GoalsOf(p))
                   /\ stats[p].assists = Cardinality(AssistSlotsOf(p))

C6_Witness ==
    /\ pc = "counted"
    /\ highlights = <<Hughes>>
    /\ DOMAIN stats = {JackHughes, LukeHughes}
    /\ stats[JackHughes] = [goals |-> 1, assists |-> 1]
    /\ stats[LukeHughes] = [goals |-> 1, assists |-> 0]
    /\ SidneyCrosby \in PlayersOfGoals

\* the message the claim describes for the keys in the order o
NamedMessage(o) ==
    LET Name(p) ==
            IF \E q \in DOMAIN stats \ {p} : q.last_name = p.last_name
            THEN (IF p.first_name = <<>> THEN <<>> ELSE <<p.first_name[1]>>)
                 \o <<".", " ">> \o p.last_name
            ELSE p.last_name
        Entry(p) == Name(p) \o <<" ">> \o ToDecimal(stats[p].goals) \o <<"+">>
                        \o ToDecimal(stats[p].assists)
    IN  <<"(">> \o Join([i \in 1..Len(o) |-> Entry(o[i])], <<",", " ">>) \o <<")">>

\* C7: a player of the message is shown as "<initial>. <last name>" exactly
\* when another key of the stats map has the same last name, and by the bare
\* last name otherwise.
C7_InitialIffNamesake ==
    pc = "crafted" /\ IsOk(message) /\ IsSome(message.val) =>
        \E o \in Orders(DOMAIN stats) : Unwrap(message.val) = NamedMessage(o)

C7_Witness ==
    /\ pc = "crafted"
    /\ DOMAIN stats = {JackHughes, LukeHughes}
    /\ Len(goals) = 2 /\ goals[1].scorer = JackHughes
    /\ message = Ok(Some(<<"(", "J", ".", " ">> \o Hughes \o <<" ", "1", "+", "0", ",", " ",
                           "L", ".", " ">> \o Hughes \o <<" ", "1", "+", "0", ")">>))

----------------------------------------------------------------------------
(* SpecPrint: one feed game through parse_game and print_game *)

InitPrint ==
    /\ overflow_checks = FALSE
    /\ pc = "start"
    /\ game_json \in PrintGameResponses
    /\ game = NoValue
    /\ config = <<>>
    /\ highlights \in PrintHighlightLists
    /\ options \in OptionsSet
    /\ is_tty \in BOOLEAN
    /\ stdout = <<>>
    /\ IdleGoal /\ IdlePlayer /\ IdleStats /\ IdleMain

PrintGame ==
    /\ pc = "done"
    /\ IsOk(game) /\ IsSome(game.val)
    /\ LET g == Unwrap(game.val)
       IN  \E order \in Orders(DOMAIN count_stats(g.goals, highlights, EmptyStats)) :
               LET r == print_game(g, highlights, options, is_tty, order)
               IN  /\ stdout' = r.out
                   /\ pc' = IF r.panic THEN "panicked" ELSE "printed"
    /\ UNCHANGED <<overflow_checks, mainVars, goalVars, playerVars, configVars, gameVars, statsVars,
                   options, is_tty>>

NextPrint == ParseGame \/ PrintGame

SpecPrint == InitPrint /\ [][NextPrint]_vars

----------------------------------------------------------------------------
(* Claims on print_game *)

StatsLines == {i \in 1..Len(stdout) : stdout[i].kind = "stats"}

\* a highlighted player scored or assisted a goal of the feed game outside
\* the shootout
HighlightedPoint ==
    \E i \in 1..Len(FeedGoals) :
        /\ FeedGoals[i].period # <<"S", "O">>
        /\ \/ Contains(highlights, extract_player(FeedGoals[i].scorer, <<>>).last_name)
           \/ /\ IsSome(FeedGoals[i].assists)
              /\ \E j \in 1..Len(Unwrap(FeedGoals[i].assists)) :
                     Contains(highlights,
                              extract_player(Unwrap(FeedGoals[i].assists)[j], <<>>).last_name)

\* C9: print_game emits a stats line only if show_stats is set, the
\* highlight list is not empty and a highlighted player earned a goal or an
\* assist outside the shootout; no empty "()" line is ever printed.
C9_StatsLineOnlyIfEarned ==
    pc \in {"printed", "panicked"} =>
        /\ StatsLines # {} =>
               options.show_stats /\ highlights # <<>> /\ HighlightedPoint
        /\ \A i \in 1..Len(stdout) : stdout[i].text # <<"(", ")">>
        /\ Cardinality(StatsLines) <= 1

C9_Witness ==
    /\ pc = "printed"
    /\ options.show_stats
    /\ highlights = <<Foligno>>
    /\ Len(FeedGoals) = 2
    /\ FeedGoals[1].period = <<"1">> /\ FeedGoals[1].scorer = CamAtkinson
    /\ FeedGoals[2].period = <<"S", "O">> /\ FeedGoals[2].scorer = NickFoligno
    /\ \E i \in StatsLines :
           stdout[i].text = <<"(">> \o Foligno \o <<" ", "0", "+", "1", ")">>

----------------------------------------------------------------------------
(* Spec: a whole run of main *)

Init ==
    /\ overflow_checks = FALSE
    /\ pc = "main"
    /\ args \in CliArgs
    /\ env \in Envs
    /\ is_tty \in BOOLEAN
    /\ options = NoValue
    /\ highlights = NoValue
    /\ config = <<>>
    /\ stdout = <<>>
    /\ response = NoValue
    /\ parsed_games = NoValue
    /\ exit_code = None
    /\ IdleGoal /\ IdlePlayer /\ IdleGame /\ IdleStats

\* main up to the call of fetch_games
Main ==
    /\ pc = "main"
    /\ IF args.version
       THEN /\ stdout' = <<Seg("version", "none", VERSION_TEXT, TRUE)>>
            /\ exit_code' = Some(0)
            /\ pc' = "exited"
            /\ UNCHANGED <<highlights, options>>
       ELSE IF ~env.home
       THEN /\ exit_code' = Some(101)
            /\ pc' = "exited"
            /\ UNCHANGED <<highlights, options, stdout>>
       ELSE /\ highlights' = LET r == read_highlight_config(env.config_file)
                             IN  IF IsOk(r) THEN r.val ELSE <<>>
            /\ options' = [use_colors      |-> ~args.nocolors,
                           show_stats      |-> args.stats,
                           show_highlights |-> args.highlight]
            /\ pc' = "fetch"
            /\ UNCHANGED <<stdout, exit_code>>
    /\ UNCHANGED <<overflow_checks, args, env, response, parsed_games, is_tty, config,
                   goalVars, playerVars, gameVars, statsVars>>

FetchGames ==
    /\ pc = "fetch"
    /\ response' = fetch_games(env)
    /\ pc' = "fetched"
    /\ UNCHANGED <<overflow_checks, args, env, parsed_games, exit_code, goalVars, playerVars,
                   configVars, gameVars, statsVars, printVars>>

ParseGames ==
    /\ pc = "fetched"
    /\ IsOk(response)
    /\ LET r == parse_games(response.val)
       IN  IF IsPanic(r)
           THEN parsed_games' = parsed_games /\ exit_code' = Some(101) /\ pc' = "exited"
           ELSE parsed_games' = r /\ exit_code' = exit_code /\ pc' = "parsed"
    /\ UNCHANGED <<overflow_checks, args, env, response, goalVars, playerVars, configVars,
                   gameVars, statsVars, printVars>>

PrintGames ==
    /\ pc = "parsed"
    /\ \E orders \in OrderChoices(parsed_games.val, highlights) :
           LET r == print_games(parsed_games.val, highlights, options, is_tty, orders)
           IN  /\ stdout' = stdout \o r.out
               /\ exit_code' = Some(IF r.panic THEN 101 ELSE 0)
    /\ pc' = "exited"
    /\ UNCHANGED <<overflow_checks, args, env, response, parsed_games, goalVars, playerVars,
                   configVars, gameVars, statsVars, options, is_tty>>

HandleRequestError ==
    /\ pc = "fetched"
    /\ ~IsOk(response)
    /\ stdout' = stdout \o handle_request_error(response)
    /\ exit_code' = Some(1)
    /\ pc' = "exited"
    /\ UNCHANGED <<overflow_checks, args, env, response, parsed_games, goalVars, playerVars,
                   configVars, gameVars, statsVars, options, is_tty>>

Next == Main \/ FetchGames \/ ParseGames \/ PrintGames \/ HandleRequestError

Spec == Init /\ [][Next]_vars

----------------------------------------------------------------------------
(* Claims on the whole run *)

\* an entry the claim calls dropped: no teams block, or no score for a side
Droppable(e) ==
    \/ ~IsSome(e.teams)
    \/ Unwrap(e.teams).home.abbreviation \notin DOMAIN e.scores
    \/ Unwrap(e.teams).away.abbreviation \notin DOMAIN e.scores

\* an entry with nothing wrong: it is not droppable and parse_game converts it
Sound(e) == ~Droppable(e) /\ IsOk(parse_game([e EXCEPT !.teams = Unwrap(e.teams)]))

Headers == {i \in 1..Len(stdout) : stdout[i].kind = "header"}
Errors == {i \in 1..Len(stdout) : stdout[i].kind = "error"}

\* C4: an entry without its teams block or without the score of a side gives
\* no Game for that entry only: the other games of the feed are still parsed
\* and rendered, and no error is surfaced.
C4_OnlyThatEntryDropped ==
    /\ pc = "exited"
    /\ ~args.version /\ env.home /\ env.network = "ok"
    /\ \E i \in 1..Len(env.feed) : Droppable(env.feed[i])
    /\ \A i \in 1..Len(env.feed) : Droppable(env.feed[i]) \/ Sound(env.feed[i])
    => /\ exit_code = Some(0)
       /\ Errors = {}
       /\ Cardinality(Headers) = Cardinality({i \in 1..Len(env.feed) : Sound(env.feed[i])})

----------------------------------------------------------------------------
(* Claims on the colours of print_game *)

\* C11: every line print_game emits carries a colour only when use_colors is
\* set and standard output is a terminal, whatever show_highlights and
\* show_stats are.
C11_ColorNeedsFlagAndTerminal ==
    pc \in {"printed", "panicked"} =>
        \A i \in 1..Len(stdout) :
            stdout[i].color # "none" => options.use_colors /\ is_tty

----------------------------------------------------------------------------
(* Claims on the exit code of a run *)

IsNumericPeriod(period) == IsSome(parse_u64(period))

\* a feed goal that parse_game cannot convert: a period that is neither a
\* number nor "OT"/"SO", or no min although the period is not "SO"
BadGoal(g) ==
    \/ ~IsNumericPeriod(g.period) /\ g.period \notin {<<"O", "T">>, <<"S", "O">>}
    \/ ~IsSome(g.min) /\ g.period # <<"S", "O">>

BadGoals(e) ==
    IsSome(e.goals) /\ \E i \in 1..Len(Unwrap(e.goals)) : BadGoal(Unwrap(e.goals)[i])

\* the document of the feed was received and decoded
Fetched == ~args.version /\ env.home /\ env.network = "ok"
               /\ \A i \in 1..Len(env.feed) : IsSome(env.feed[i].teams)

\* C12: the exit code is 0 when the run succeeds or the version flag is given
\* and 1 on every unrecoverable error: a fetch error (connect, timeout,
\* decode, unknown) or a transform error (a period that does not parse, or a
\* missing min of a goal outside the shootout).
C12_ExitCodes ==
    pc = "exited" =>
        /\ exit_code \in {Some(0), Some(1)}
        /\ args.version => exit_code = Some(0)
        /\ ~args.version /\ env.home /\ ~IsOk(fetch_games(env)) => exit_code = Some(1)
        /\ Fetched /\ (\E i \in 1..Len(env.feed) : BadGoals(env.feed[i])) =>
               exit_code = Some(1)

----------------------------------------------------------------------------
(* Further claims on parse_game *)

\* C13: the Game holds one goal per goal of the feed game (none when the
\* feed has no goal list), the i-th built from the i-th feed goal, and home,
\* away and status are those of the feed entry.
C13_EveryGoalRetained ==
    Parsed =>
        LET g == Unwrap(game.val)
        IN  /\ Len(g.goals) = Len(FeedGoals)
            /\ ~IsSome(game_json.goals) => g.goals = <<>>
            /\ \A i \in 1..Len(FeedGoals) :
                   LET f == FeedGoals[i]
                       c == g.goals[i]
                   IN  /\ c.team = f.team
                       /\ c.scorer.team = f.team
                       /\ c.scorer.first_name \o <<" ">> \o c.scorer.last_name = f.scorer
                       /\ c.special = (f.period \notin {<<"1">>, <<"2">>, <<"3">>})
                       /\ f.period = <<"S", "O">> => c.minute = SHOOTOUT_MINUTE
                       /\ f.period = <<"O", "T">> => c.minute = OT_START + Unwrap(f.min)
                       /\ f.period = <<"2">> => c.minute = PERIOD_MINUTES + Unwrap(f.min)
            /\ g.home = game_json.teams.home.abbreviation
            /\ g.away = game_json.teams.away.abbreviation
            /\ g.status = game_json.status.state

C13_Witness ==
    /\ Parsed
    /\ Len(FeedGoals) = 2
    /\ FeedGoals[1].period = <<"S", "O">> /\ FeedGoals[1].team = TBL
    /\ FeedGoals[2].period = <<"2">> /\ FeedGoals[2].team = CBJ
    /\ Len(Unwrap(game.val).goals) = 2
    /\ Unwrap(game.val).goals[2].minute = 25

\* the text a running score stands for: the digits of a number, the
\* characters of a numeric string
ScoreText(v) == IF v.json = "string" THEN v.s ELSE ToDecimal(v.n)

\* C14: the score string is "<home score>-<away score>", each side looked up
\* by its abbreviation, and a score given as a numeric string reads like the
\* equal number: 4 and "4" against 2 and "2" both give "4-2".
C14_ScoreCoerced ==
    Parsed =>
        Unwrap(game.val).score =
            ScoreText(game_json.scores[game_json.teams.home.abbreviation]) \o <<"-">>
                \o ScoreText(game_json.scores[game_json.teams.away.abbreviation])

----------------------------------------------------------------------------
(* Claims on the lines print_game writes *)

\* the characters written to standard output: the text of each print in
\* turn, with LF where the macro ends the line
RECURSIVE Written(_)
Written(out) ==
    IF out = <<>> THEN <<>>
    ELSE out[1].text \o (IF out[1].nl THEN <<LF>> ELSE <<>>) \o Written(Tail(out))

\* the first line of a text, and whether a line feed ends it
FirstLine(text) ==
    IF \E i \in 1..Len(text) : text[i] = LF
    THEN SubSeq(text, 1, IndexOf(text, LF) - 1) ELSE text

\* the prints of the header statement of print_game
HeaderPrints == SelectSeq(stdout, LAMBDA sg : sg.kind \in {"header", "score"})

LastChars(text, n) == SubSeq(text, Len(text) - n + 1, Len(text))

\* C15: for every status the header print_game emits is a complete line of
\* its own that ends with a 6-character right-aligned field: the score
\* string of the game, or "POSTP." when the status is POSTPONED.
C15_HeaderEndsWithScore ==
    pc \in {"printed", "panicked"} =>
        LET g == Unwrap(game.val)
            header == Written(HeaderPrints)
            field == IF g.status = "POSTPONED" THEN <<"P", "O", "S", "T", "P", ".">>
                     ELSE PadLeft(g.score, SCORE_WIDTH)
        IN  /\ header # <<>> /\ header[Len(header)] = LF
            /\ Len(header) > Len(field)
            /\ LastChars(SubSeq(header, 1, Len(header) - 1), Len(field)) = field

\* the goal entries print_game writes before the blank line that ends the
\* goals of the game
GoalPrints ==
    LET blanks == {i \in 1..Len(stdout) : stdout[i].kind = "blank"}
        first == IF blanks = {} THEN Len(stdout) + 1
                 ELSE CHOOSE i \in blanks : \A j \in blanks : i <= j
    IN  SelectSeq(SubSeq(stdout, 1, first - 1), LAMBDA sg : sg.kind \in {"home", "away"})

\* "<last name padded to 15> <minute padded to 2>"
Entry(gl) ==
    PadRight(gl.scorer.last_name, NAME_WIDTH) \o <<" ">>
        \o PadLeft(ToDecimal(gl.minute), MINUTE_WIDTH)

\* an entry alone on its line, in the home or in the away column
HomeLine(gl) == Entry(gl)
AwayLine(gl) == Spaces(NAME_WIDTH + 1 + MINUTE_WIDTH + 1) \o Entry(gl)

\* the entry a print shows, without the space that separates the columns
EntryShown(sg) ==
    IF sg.nl THEN sg.text ELSE SubSeq(sg.text, 1, Len(sg.text) - 1)

\* C16: when the marker of the game is "so", no goal of minute 65 is in the
\* paired body and the last goal is printed once, on a line of its own after
\* the body, in the home column if its team is the home team and in the away
\* column otherwise; without the marker "so" there is no such extra line.
C16_ShootoutGoalOnOwnLine ==
    pc = "printed" =>
        LET g == Unwrap(game.val)
            n == Len(GoalPrints)
            InBody(team) == SelectSeq(g.goals, LAMBDA gl : gl.team = team
                                                      /\ gl.minute # SHOOTOUT_MINUTE)
            Body(prints, kind) == SelectSeq(prints, LAMBDA sg : sg.kind = kind)
            Shown(prints, kind) ==
                [i \in 1..Len(Body(prints, kind)) |-> EntryShown(Body(prints, kind)[i])]
            Entries(gs) == [i \in 1..Len(gs) |-> Entry(gs[i])]
        IN  IF g.special = <<"s", "o">>
            THEN LET last == g.goals[Len(g.goals)]
                     body == SubSeq(GoalPrints, 1, n - 1)
                 IN  /\ n >= 1
                     /\ GoalPrints[n].nl
                     /\ GoalPrints[n].text =
                            IF last.team = g.home THEN HomeLine(last) ELSE AwayLine(last)
                     /\ n = 1 \/ GoalPrints[n - 1].nl
                     /\ Shown(body, "home") = Entries(InBody(g.home))
                     /\ Shown(body, "away") = [i \in 1..Len(InBody(g.away)) |->
                            IF Len(InBody(g.home)) >= i THEN Entry(InBody(g.away)[i])
                            ELSE AwayLine(InBody(g.away)[i])]
            ELSE LET Paired(team) ==
                         SelectSeq(g.goals, LAMBDA gl :
                             gl.team = team /\ (gl.minute # SHOOTOUT_MINUTE
                                                    \/ g.special = <<"o", "t">>))
                     h == Len(Paired(g.home))
                     a == Len(Paired(g.away))
                 IN  /\ Len(Body(GoalPrints, "home")) = h
                     /\ Len(Body(GoalPrints, "away")) = a
                     /\ Len(SelectSeq(GoalPrints, LAMBDA sg : sg.nl))
                            = IF h >= a THEN h ELSE a

C16_Witness ==
    /\ pc = "printed"
    /\ Unwrap(game.val).special = <<"s", "o">>
    /\ Len(FeedGoals) = 2
    /\ FeedGoals[1].period = <<"1">> /\ FeedGoals[1].team = CBJ
    /\ FeedGoals[2].period = <<"S", "O">> /\ FeedGoals[2].team = TBL
    /\ Len(GoalPrints) = 2
    /\ GoalPrints[1].kind = "home" /\ GoalPrints[1].nl
    /\ GoalPrints[2].kind = "away"

----------------------------------------------------------------------------
(* Claims on a run whose feed holds a goal that cannot be converted *)

----------------------------------------------------------------------------
(* Claims on the series line and on the blank lines *)

SeriesPrints == {i \in 1..Len(stdout) : stdout[i].kind = "series"}

\* C18: whenever the playoff_series record of a game is present, print_game
\* completes and prints one line "Series <home wins>-<away wins>" followed by
\* a blank line, after the goals and the stats of the game; without the
\* record there is no Series line.
C18_SeriesLine ==
    pc \in {"printed", "panicked"} =>
        LET g == Unwrap(game.val)
            n == Len(stdout)
        IN  IF IsSome(g.playoff_series)
            THEN LET record == Unwrap(g.playoff_series)
                 IN  /\ pc = "printed"
                     /\ SeriesPrints = {n - 1}
                     /\ stdout[n].kind = "blank"
                     /\ stdout[n - 1].nl
                     /\ "wins" \in DOMAIN record
                     /\ stdout[n - 1].text =
                            <<"S", "e", "r", "i", "e", "s", " ">>
                                \o ScoreText(record["wins"].o[g.home]) \o <<"-">>
                                \o ScoreText(record["wins"].o[g.away])
            ELSE SeriesPrints = {}

EndsWithEmptyLine(text) ==
    Len(text) >= 2 /\ text[Len(text)] = LF /\ text[Len(text) - 1] = LF

\* C19: in the output of print_games the rendering of every game ends with
\* an empty line, so the header of every game after the first comes after a
\* blank line, for every status, goal list and option combination.
C19_BlankLineAfterEveryGame ==
    pc = "exited" /\ exit_code = Some(0) /\ Headers # {} =>
        /\ EndsWithEmptyLine(Written(stdout))
        /\ \A i \in Headers :
               i > 1 => EndsWithEmptyLine(Written(SubSeq(stdout, 1, i - 1)))

----------------------------------------------------------------------------
(* Claims on the fetch *)

Categorized == {MSG_CONNECT, MSG_TIMEOUT, MSG_DECODE, MSG_UNKNOWN}

\* the response is written once, by the fetch, before any game is
\* transformed or printed
FetchedOnceAndFirst ==
    [][response' # response =>
          /\ response = NoValue
          /\ parsed_games = NoValue
          /\ stdout = <<>>
          /\ ~args.version]_vars

\* games are transformed and printed only from a response that was received
NothingBeforeFetch ==
    [](~args.version /\ (parsed_games # NoValue \/ stdout # <<>>) => response # NoValue)

\* a run without the version flag that ends has fetched, unless no home
\* directory was found
FetchedWhenExited ==
    [](pc = "exited" /\ ~args.version /\ env.home => response # NoValue)

\* a transport error prints one categorized ERROR message, renders no game
\* and ends the run with code 1
TransportErrorReported ==
    [](pc = "exited" /\ response # NoValue /\ ~IsOk(response) =>
          /\ Cardinality(Errors) = 1
          /\ \A i \in Errors : stdout[i].text \in Categorized
          /\ Headers = {}
          /\ parsed_games = NoValue
          /\ exit_code = Some(1))

----------------------------------------------------------------------------
(* Further claims on parse_highlight_config *)

Whitespace == {" ", CR, LF}

\* C21: every token parse_highlight_config returns is non-empty and has no
\* leading or trailing whitespace: a line of spaces gives no token and a
\* line " Crosby " gives "Crosby".
C21_TokensTrimmed ==
    pc = "done" /\ config # <<>> =>
        /\ IsOk(highlights)
        /\ \A i \in 1..Len(highlights.val) :
               LET token == highlights.val[i]
               IN  /\ token # <<>>
                   /\ token[1] \notin Whitespace
                   /\ token[Len(token)] \notin Whitespace

----------------------------------------------------------------------------
(* Further claims on the minute of a goal *)

\* C22: a goal built from a feed goal with min in 0..19 has minute 65 if and
\* only if the period of the feed goal is "SO": no overtime goal and no goal
\* of a numbered period gets minute 65.
C22_SentinelOnlyForShootout ==
    pc = "done" /\ IsOk(goal) =>
        (goal.val.minute = SHOOTOUT_MINUTE <=> goal_json.period = <<"S", "O">>)

\* the place of a period in the course of a game: the number of a numbered
\* period, 4 for "OT", and after every period for "SO"
PeriodRank(period) ==
    IF period = <<"S", "O">> THEN MaxPeriodNumber + 1
    ELSE IF period = <<"O", "T">> THEN SPECIAL_FROM_PERIOD
    ELSE Unwrap(parse_u64(period))

\* the goals of the feed game are listed chronologically
Chronological(gs) ==
    /\ \A i \in 1..Len(gs) :
           /\ gs[i].period \in {<<"S", "O">>, <<"O", "T">>}
                \/ (IsNumericPeriod(gs[i].period) /\ Unwrap(parse_u64(gs[i].period)) >= 1)
           /\ gs[i].period # <<"S", "O">> => IsSome(gs[i].min) /\ Unwrap(gs[i].min) \in Mins
    /\ \A i \in 1..(Len(gs) - 1) :
           IF gs[i].period = gs[i + 1].period
           THEN gs[i].period = <<"S", "O">> \/ Unwrap(gs[i].min) <= Unwrap(gs[i + 1].min)
           ELSE PeriodRank(gs[i].period) < PeriodRank(gs[i + 1].period)

\* C23: when the goals of a feed game are listed chronologically (periods
\* "1", "2", "3", then "OT" or numbered periods from 4, then "SO", min in
\* 0..19 non-decreasing within a period), the minutes of the goals of the
\* Game are non-decreasing from the first goal to the last.
C23_MinutesNonDecreasing ==
    Parsed /\ Chronological(FeedGoals) =>
        LET gs == Unwrap(game.val).goals
        IN  \A i \in 1..(Len(gs) - 1) : gs[i].minute <= gs[i + 1].minute

----------------------------------------------------------------------------
(* Further claims on the score body of print_game *)

\* the lines a sequence of prints makes up
RECURSIVE LinesOf(_, _)
LinesOf(prints, cur) ==
    IF prints = <<>> THEN (IF cur = <<>> THEN <<>> ELSE <<cur>>)
    ELSE IF prints[1].nl
    THEN <<cur \o prints[1].text>> \o LinesOf(Tail(prints), <<>>)
    ELSE LinesOf(Tail(prints), cur \o prints[1].text)

\* the goal entries of the paired body: without the line of the shootout
\* goal when the marker of the game is "so"
BodyPrints ==
    IF Unwrap(game.val).special = <<"s", "o">>
    THEN SubSeq(GoalPrints, 1, Len(GoalPrints) - 1) ELSE GoalPrints

\* the goals of a team that belong to the body, in feed order
BodyGoals(team) ==
    LET g == Unwrap(game.val)
    IN  SelectSeq(g.goals, LAMBDA gl :
            gl.team = team /\ (gl.minute # SHOOTOUT_MINUTE \/ g.special = <<"o", "t">>))

\* C24: the score body has max(|H|, |A|) lines, H and A being the goals of
\* the home and of the away team in feed order, without the goals of minute
\* 65 unless the marker is "ot"; line i shows H[i] on the left and A[i] on
\* the right, a home-only line has nothing on the right, an away-only line
\* has blank left padding, and every goal of H and A is on one line.
C24_BodyPairsGoals ==
    pc = "printed" =>
        LET H == BodyGoals(Unwrap(game.val).home)
            A == BodyGoals(Unwrap(game.val).away)
            body == LinesOf(BodyPrints, <<>>)
        IN  /\ Len(body) = IF Len(H) >= Len(A) THEN Len(H) ELSE Len(A)
            /\ \A i \in 1..Len(body) :
                   body[i] = IF i <= Len(H) /\ i <= Len(A)
                             THEN Entry(H[i]) \o <<" ">> \o Entry(A[i])
                             ELSE IF i <= Len(H) THEN HomeLine(H[i])
                             ELSE AwayLine(A[i])

C24_Witness ==
    /\ pc = "printed"
    /\ Len(FeedGoals) = 2
    /\ FeedGoals[1].period = <<"S", "O">> /\ FeedGoals[1].team = TBL
    /\ FeedGoals[2].period = <<"O", "T">> /\ FeedGoals[2].team = TBL
    /\ Unwrap(game.val).special = <<"o", "t">>
    /\ Len(LinesOf(BodyPrints, <<>>)) = 2
    /\ LinesOf(BodyPrints, <<>>)[2] = AwayLine(Unwrap(game.val).goals[2])

----------------------------------------------------------------------------
(* Further claims on the arithmetic of format_minute *)

\* C25: for every period that parses as a u64, "0" included, and every min
\* in 0..19, format_minute computes 20 * (period - 1) + min without unsigned
\* underflow or overflow, and the result is at least min. (A minute below 0
\* stands for a wrapped u64 value.)
C25_NoUnderflow ==
    pc = "done" /\ IsNumericPeriod(goal_json.period) /\ IsSome(goal_json.min) =>
        /\ IsOk(goal)
        /\ goal.val.minute >= 0
        /\ goal.val.minute >= Unwrap(goal_json.min)
        /\ goal.val.minute
               = PERIOD_MINUTES * (Unwrap(parse_u64(goal_json.period)) - 1)
                     + Unwrap(goal_json.min)

====
